---------------------------- MODULE Spec2Model ----------------------------
(***************************************************************************)
(* Model of docs/notebooks/Promolecule_NCI.ipynb: the function             *)
(* reduced_density_gradient(rho, nablarho) and the notebook's main script. *)
(*                                                                         *)
(* Array elements are modelled as exact numbers of the form                *)
(*      sg * (n/d) * sqrt(r) * 3^(e3/3) * pi^(epi/3)                        *)
(* together with the two IEEE-754 special values the code can produce      *)
(* (infinity and NaN).  The form is closed under every operation the       *)
(* function applies (product, quotient, the powers 2, 1/3 and 4/3, and the *)
(* square root of a sum of squares of integers).  Rounding of the last     *)
(* bit and the finite exponent range of float64 are not modelled.          *)
(***************************************************************************)
EXTENDS Integers, Sequences, FiniteSets, TLC

(***************************************************************************)
(* Bounds of the model.                                                    *)
(***************************************************************************)
MaxN == 2

MaxPoints == 2

(***************************************************************************)
(* Integer helpers.                                                        *)
(***************************************************************************)
Abs(x) == IF x < 0 THEN -x ELSE x

Sign(x) == IF x < 0 THEN -1 ELSE IF x = 0 THEN 0 ELSE 1

RECURSIVE GCD(_, _)
GCD(a, b) == IF b = 0 THEN a ELSE GCD(b, a % b)

RECURSIVE IPow(_, _)
IPow(b, e) == IF e = 0 THEN 1 ELSE b * IPow(b, e - 1)

\* the largest s with s*s dividing m (m >= 1)
SquarePart(m) ==
    CHOOSE s \in 1..m : /\ m % (s * s) = 0
                        /\ \A t \in (s + 1)..m : m % (t * t) # 0

\* the exponent of 3 in m (m >= 1)
RECURSIVE V3(_)
V3(m) == IF m % 3 = 0 THEN 1 + V3(m \div 3) ELSE 0

ICbrt(m) == CHOOSE c \in 1..m : c * c * c = m

(***************************************************************************)
(* Numbers: the elements of the arrays.                                    *)
(***************************************************************************)
NaN == [k |-> "nan", sg |-> 0, n |-> 0, d |-> 1, r |-> 1, e3 |-> 0, epi |-> 0]

Inf(s) == [k |-> "inf", sg |-> s, n |-> 0, d |-> 1, r |-> 1, e3 |-> 0, epi |-> 0]

Zero == [k |-> "fin", sg |-> 0, n |-> 0, d |-> 1, r |-> 1, e3 |-> 0, epi |-> 0]

\* the canonical record of sg * (n/d) * sqrt(r) * 3^(e3/3) * pi^(epi/3),
\* n >= 0, d >= 1, r >= 1: r squarefree, 0 <= e3 <= 2, n/d in lowest terms
Norm6(sg, n, d, r, e3, epi) ==
    IF sg = 0 \/ n = 0 THEN Zero
    ELSE LET s  == SquarePart(r)
             q3 == e3 \div 3
             n1 == n * s * (IF q3 > 0 THEN IPow(3, q3) ELSE 1)
             d1 == d * (IF q3 < 0 THEN IPow(3, -q3) ELSE 1)
             g  == GCD(n1, d1)
         IN  [k |-> "fin", sg |-> sg, n |-> n1 \div g, d |-> d1 \div g,
              r |-> r \div (s * s), e3 |-> e3 - 3 * q3, epi |-> epi]

FromInt(i) == Norm6(Sign(i), Abs(i), 1, 1, 0, 0)

\* np.pi
Pi == [k |-> "fin", sg |-> 1, n |-> 1, d |-> 1, r |-> 1, e3 |-> 0, epi |-> 3]

IsNaN(x) == x.k = "nan"

IsInf(x) == x.k = "inf"

IsFinite(x) == x.k = "fin"

IsZero(x) == x.k = "fin" /\ x.sg = 0

\* x * y in IEEE-754 arithmetic
Mul(x, y) ==
    IF IsNaN(x) \/ IsNaN(y) THEN NaN
    ELSE IF IsInf(x) \/ IsInf(y)
         THEN IF IsZero(x) \/ IsZero(y) THEN NaN ELSE Inf(x.sg * y.sg)
    ELSE Norm6(x.sg * y.sg, x.n * y.n, x.d * y.d, x.r * y.r,
               x.e3 + y.e3, x.epi + y.epi)

\* 1 / y for a finite y # 0; 1/sqrt(r) = sqrt(r)/r
Recip(y) == Norm6(y.sg, y.d, y.n * y.r, y.r, -y.e3, -y.epi)

\* mutant: a guarded division that yields 0 for a zero divisor
Div_guarded(x, y) ==
    IF IsNaN(x) \/ IsNaN(y) THEN NaN
    ELSE IF IsInf(y) THEN (IF IsInf(x) THEN NaN ELSE Zero)
    ELSE IF IsZero(y) THEN Zero
    ELSE IF IsInf(x) THEN Inf(x.sg * y.sg)
    ELSE Mul(x, Recip(y))

\* x / y in IEEE-754 arithmetic (a zero divisor is +0 here: it is a product
\* of positive factors and a power of a zero)
Div(x, y) ==
    IF IsNaN(x) \/ IsNaN(y) THEN NaN
    ELSE IF IsInf(y) THEN (IF IsInf(x) THEN NaN ELSE Zero)
    ELSE IF IsZero(y)
         THEN IF IsZero(x) THEN NaN
              ELSE Inf(x.sg)
    ELSE IF IsInf(x) THEN Inf(x.sg * y.sg)
    ELSE Mul(x, Recip(y))

\* x ** (a/b) for a >= 1 and b in {1, 3}, as numpy's float power: a negative
\* base with a fractional exponent is NaN.  A finite x > 0 has r = 1 and a
\* rational part that is a cube up to a power of 3 (the inputs of the model).
Power(x, a, b) ==
    IF IsNaN(x) THEN NaN
    ELSE IF x.sg < 0 /\ b # 1 THEN NaN
    ELSE IF IsInf(x) THEN Inf(IF a % 2 = 0 THEN 1 ELSE x.sg)
    ELSE IF IsZero(x) THEN Zero
    ELSE IF b = 1
         THEN Norm6(IF a % 2 = 0 THEN 1 ELSE x.sg, IPow(x.n, a), IPow(x.d, a),
                    IPow(x.r, a), x.e3 * a, x.epi * a)
    ELSE LET vn == V3(x.n)
             vd == V3(x.d)
             n0 == x.n \div IPow(3, vn)
             d0 == x.d \div IPow(3, vd)
             E  == x.e3 + 3 * vn - 3 * vd
         IN  Norm6(1, IPow(ICbrt(n0), a), IPow(ICbrt(d0), a), 1,
                   (E * a) \div 3, (x.epi * a) \div 3)

(***************************************************************************)
(* Inputs of the model.                                                    *)
(***************************************************************************)
\* density values: negative, zero and positive ones (cubes, so that the
\* power 4/3 is exact)
RhoValues == {-8, 0, 1, 8}

\* density values a promolecule (a sum of atomic densities) evaluates to
DensityValues == {0, 1, 8}

\* gradient vectors: the zero vector, rational and irrational norms
GradVecs == {<<0, 0, 0>>, <<3, 4, 0>>, <<1, -2, 2>>, <<-1, -1, 0>>}

SeqsUpTo(S, m) == UNION {[1..j -> S] : j \in 0..m}

(***************************************************************************)
(* reduced_density_gradient                                                *)
(***************************************************************************)
\* the outcome of a call: a returned array or a raised exception
Returned(a) == [tag |-> "ok", val |-> a]

Raised(e) == [tag |-> e, val |-> <<>>]

NotCalled == [tag |-> "none", val |-> <<>>]

\* mutant: the square root left out
Sqrt_missing(m) == FromInt(m)

\* sqrt(m) of an integer m >= 0
Sqrt(m) == IF m = 0 THEN Zero ELSE Norm6(1, 1, 1, m, 0, 0)

RECURSIVE SumSq(_)
SumSq(v) == IF v = <<>> THEN 0 ELSE Head(v) * Head(v) + SumSq(Tail(v))

Column(x, j) == [i \in 1..Len(x) |-> x[i][j]]

\* np.linalg.norm(x, axis=axis) of a 2-D array x of 3-component rows:
\* axis = 1 reduces over the components of each row, axis = 0 over the rows
linalg_norm(x, axis) ==
    IF axis = 1 THEN [i \in 1..Len(x) |-> Sqrt(SumSq(x[i]))]
    ELSE [j \in 1..3 |-> Sqrt(SumSq(Column(x, j)))]

\* the shape numpy broadcasts two 1-D shapes to; -1 when it cannot
BroadcastLen(a, b) ==
    IF a = b THEN a
    ELSE IF a = 1 THEN b
    ELSE IF b = 1 THEN a
    ELSE -1

\* mutant: every entry read from the first element
At_first(x, i) == x[1]

At(x, i) == IF Len(x) = 1 THEN x[1] ELSE x[i]

\* x / y of two 1-D arrays
ArrayDivide(x, y) ==
    LET L == BroadcastLen(Len(x), Len(y))
    IN  IF L < 0 THEN Raised("ValueError")
        ELSE Returned([i \in 1..L |-> Div(At(x, i), At(y, i))])

\* coeff * rho ** (4 / 3)
Denominator(c, rho) ==
    [i \in 1..Len(rho) |-> Mul(c, Power(FromInt(rho[i]), 4, 3))]

\* mutant: the cube root left out, 2 * (3 * np.pi ** 2)
coeff_no_root == Mul(FromInt(2), Mul(FromInt(3), Power(Pi, 2, 1)))

\* mutant: 1 / 3 as an integer division, 2 * (3 * np.pi ** 2) ** 0
coeff_intdiv == FromInt(2)

\* coeff = 2 * (3 * np.pi ** 2) ** (1 / 3)
coeff == Mul(FromInt(2), Power(Mul(FromInt(3), Power(Pi, 2, 1)), 1, 3))

\* mutant: the norm taken over the points, axis=0
gradnorm_axis0(nablarho) == linalg_norm(nablarho, 0)

RECURSIVE Sum(_)
Sum(v) == IF v = <<>> THEN 0 ELSE Head(v) + Sum(Tail(v))

\* mutant: the components summed, np.sum(nablarho, axis=1)
gradnorm_sum(nablarho) == [i \in 1..Len(nablarho) |-> FromInt(Sum(nablarho[i]))]

gradnorm(nablarho) == linalg_norm(nablarho, 1)

reduced_density_gradient(rho, nablarho) ==
    ArrayDivide(gradnorm(nablarho), Denominator(coeff, rho))

(***************************************************************************)
(* The notebook's main script.                                             *)
(***************************************************************************)
VARIABLES
    pc,            \* the statement the kernel runs next
    steps,         \* the statements that have completed, in order
    npoints,       \* the number of points of cubgrid (-1: no grid yet)
    dimer_rho,     \* the density array
    dimer_grad,    \* the gradient array
    dimer_rdgrad   \* the outcome of reduced_density_gradient

vars == <<pc, steps, npoints, dimer_rho, dimer_grad, dimer_rdgrad>>

\* mutant: the plot moved before the call of reduced_density_gradient
Script_plot_early ==
    <<"load_one", "from_molecule", "make_promolecule", "density",
      "gradient", "np_load", "plot", "reduced_density_gradient">>

\* the statements of the code cell, in the order of the cell
Script == <<"load_one", "from_molecule", "make_promolecule", "density",
            "gradient", "reduced_density_gradient", "np_load", "plot">>

IndexOf(stmt) == CHOOSE i \in 1..Len(Script) : Script[i] = stmt

\* the statement after stmt
Following(stmt) ==
    IF IndexOf(stmt) = Len(Script) THEN "done" ELSE Script[IndexOf(stmt) + 1]

Init ==
    /\ pc = Script[1]
    /\ steps = <<>>
    /\ npoints = -1
    /\ dimer_rho = <<>>
    /\ dimer_grad = <<>>
    /\ dimer_rdgrad = NotCalled

Completes(stmt) ==
    /\ pc = stmt
    /\ pc' = Following(stmt)
    /\ steps' = Append(steps, stmt)

\* an exception ends the cell: no later statement runs
Fails(stmt) ==
    /\ pc = stmt
    /\ pc' = "failed"
    /\ UNCHANGED <<steps, npoints, dimer_rho, dimer_grad, dimer_rdgrad>>

\* mol = load_one(...)
LoadOne ==
    /\ Completes("load_one")
    /\ UNCHANGED <<npoints, dimer_rho, dimer_grad, dimer_rdgrad>>

\* cubgrid = UniformGrid.from_molecule(...)
FromMolecule ==
    /\ Completes("from_molecule")
    /\ npoints' \in 0..MaxPoints
    /\ UNCHANGED <<dimer_rho, dimer_grad, dimer_rdgrad>>

\* dimer_promol = make_promolecule(...)
MakePromolecule ==
    /\ Completes("make_promolecule")
    /\ UNCHANGED <<npoints, dimer_rho, dimer_grad, dimer_rdgrad>>

\* dimer_rho = dimer_promol.density(cubgrid.points, log=True)
Density ==
    /\ Completes("density")
    /\ dimer_rho' \in [1..npoints -> DensityValues]
    /\ UNCHANGED <<npoints, dimer_grad, dimer_rdgrad>>

\* dimer_grad = dimer_promol.gradient(cubgrid.points, log=True)
Gradient ==
    /\ Completes("gradient")
    /\ dimer_grad' \in [1..npoints -> GradVecs]
    /\ UNCHANGED <<npoints, dimer_rho, dimer_rdgrad>>

\* dimer_rdgrad = reduced_density_gradient(dimer_rho, dimer_grad)
ReducedDensityGradient ==
    /\ pc = "reduced_density_gradient"
    /\ dimer_rdgrad' = reduced_density_gradient(dimer_rho, dimer_grad)
    /\ IF dimer_rdgrad'.tag = "ok"
       THEN /\ pc' = Following("reduced_density_gradient")
            /\ steps' = Append(steps, "reduced_density_gradient")
       ELSE /\ pc' = "failed"
            /\ steps' = steps
    /\ UNCHANGED <<npoints, dimer_rho, dimer_grad>>

\* h2o_rho = np.load(...); h2o_rdgrad = np.load(...)
NpLoad ==
    /\ Completes("np_load")
    /\ UNCHANGED <<npoints, dimer_rho, dimer_grad, dimer_rdgrad>>

\* plt.scatter(dimer_rho, dimer_rdgrad, ...) ... plt.show()
Plot ==
    /\ Completes("plot")
    /\ UNCHANGED <<npoints, dimer_rho, dimer_grad, dimer_rdgrad>>

\* a call into an external package raises
ExternalFailure ==
    \E stmt \in {"load_one", "from_molecule", "make_promolecule", "density",
                  "gradient", "np_load", "plot"} : Fails(stmt)

Next ==
    \/ LoadOne
    \/ FromMolecule
    \/ MakePromolecule
    \/ Density
    \/ Gradient
    \/ ReducedDensityGradient
    \/ NpLoad
    \/ Plot
    \/ ExternalFailure

Spec == Init /\ [][Next]_vars

(***************************************************************************)
(* The function called on arbitrary arrays: the script entered at the call *)
(* with any density array and any gradient array of up to MaxN rows.       *)
(***************************************************************************)
CallInit ==
    /\ pc = "reduced_density_gradient"
    /\ steps = <<>>
    /\ npoints = -1
    /\ dimer_rho \in SeqsUpTo(RhoValues, MaxN)
    /\ dimer_grad \in SeqsUpTo(GradVecs, MaxN)
    /\ dimer_rdgrad = NotCalled

CallNext == ReducedDensityGradient

CallSpec == CallInit /\ [][CallNext]_vars

(***************************************************************************)
(* Properties.                                                             *)
(***************************************************************************)
Called == dimer_rdgrad.tag # "none"

N == Len(dimer_rho)

SameLength == Len(dimer_rho) = Len(dimer_grad)

AllPositive(rho) == \A i \in 1..Len(rho) : rho[i] > 0

ZeroVec == <<0, 0, 0>>

NormSquared(g) == g[1] * g[1] + g[2] * g[2] + g[3] * g[3]

\* rho^(8/3) of a cube rho > 0
Pow83(rho) == CHOOSE X \in 1..(rho * rho * rho) : X * X * X = IPow(rho, 8)

\* v = ||g|| / (2 * (3 pi^2)^(1/3) * rho^(4/3)) for rho > 0, with both sides
\* squared and cleared of denominators:
\*   v^2 * 4 * 3^(2/3) * pi^(4/3) * rho^(8/3) = ||g||^2,
\* where v^2 = (n/d)^2 * r * 3^(2 e3/3) * pi^(2 epi/3); the powers of pi agree
\* iff epi = -2, the power of 3 is rational iff e3 = 2 (and then is 9)
IsReducedGradient(v, rho, g) ==
    IF NormSquared(g) = 0 THEN v = Zero
    ELSE /\ v.k = "fin"
         /\ v.sg = 1
         /\ v.epi = -2
         /\ v.e3 = 2
         /\ 36 * v.n * v.n * v.r * Pow83(rho) = v.d * v.d * NormSquared(g)

C5_SameLength ==
    (Called /\ SameLength) =>
        /\ dimer_rdgrad.tag = "ok"
        /\ Len(dimer_rdgrad.val) = N
        /\ DOMAIN dimer_rdgrad.val = DOMAIN dimer_rho

C5_Witness ==
    /\ Called
    /\ N = 2
    /\ Len(dimer_grad) = 2
    /\ Len(dimer_rdgrad.val) = 2

C5_WitnessEmpty ==
    /\ Called
    /\ dimer_rho = <<>>
    /\ dimer_grad = <<>>
    /\ dimer_rdgrad = Returned(<<>>)

IsShapeMismatch(outcome) == outcome.tag = "ValueError"

\* C2: whenever the density array and the gradient array differ in length,
\* the call fails with a shape mismatch and returns no result, a density of
\* length 1 included
C2_MismatchFails ==
    (Called /\ ~SameLength) => IsShapeMismatch(dimer_rdgrad)

\* what the code does for unequal lengths: it fails only when neither length
\* is 1, and otherwise stretches the array of length 1 over the other
C2_Broadcast ==
    (Called /\ ~SameLength) =>
        IF Len(dimer_rho) # 1 /\ Len(dimer_grad) # 1
        THEN IsShapeMismatch(dimer_rdgrad)
        ELSE /\ dimer_rdgrad.tag = "ok"
             /\ Len(dimer_rdgrad.val) =
                    IF N = 1 THEN Len(dimer_grad) ELSE N

Single(rho, g) == reduced_density_gradient(<<rho>>, <<g>>)

C4_NegativeFails ==
    (Called /\ SameLength /\ \E i \in 1..N : dimer_rho[i] < 0) =>
        dimer_rdgrad.tag \notin {"ok", "none"}

\* what the code does for a negative density: it returns, with NaN there
C4_NegativeIsNaN ==
    (Called /\ SameLength) =>
        /\ dimer_rdgrad.tag = "ok"
        /\ \A i \in 1..N : dimer_rho[i] < 0 => dimer_rdgrad.val[i] = NaN

\* np.pi lies between PiMilliLo/1000 and PiMilliHi/1000
PiMilliLo == 3141

PiMilliHi == 3142

\* floor(100 * x) for x = (n/d) * 3^(e3/3) * pi^(2/3) > 0, found by comparing
\* cubes: x^3 = (n/d)^3 * 3^e3 * pi^2; -1 when the bounds on pi do not decide
Centi(x) ==
    LET lo == IPow(x.n, 3) * IPow(3, x.e3) * PiMilliLo * PiMilliLo
        hi == IPow(x.n, 3) * IPow(3, x.e3) * PiMilliHi * PiMilliHi
        dd == IPow(x.d, 3)
        S  == {c \in 0..1000 : /\ dd * c * c * c <= lo
                               /\ hi < dd * (c + 1) * (c + 1) * (c + 1)}
    IN  IF x.k = "fin" /\ x.sg = 1 /\ x.r = 1 /\ x.epi = 2 /\ S # {}
        THEN CHOOSE c \in S : TRUE
        ELSE -1

\* v lies strictly between lo/1000 and hi/1000, given that v * c is the
\* rational p/q and that cc/100 <= c < (cc + 1)/100
MilliBetween(v, c, cc, lo, hi) ==
    LET pq == Mul(v, c)
    IN  /\ pq.k = "fin" /\ pq.sg = 1 /\ pq.r = 1 /\ pq.e3 = 0 /\ pq.epi = 0
        /\ cc > 0
        /\ lo * pq.d * (cc + 1) <= 100000 * pq.n
        /\ 100000 * pq.n <= hi * pq.d * cc

C6_Case ==
    /\ Called
    /\ dimer_rho = <<1>>
    /\ dimer_grad = <<<<3, 4, 0>>>>

\* C6: the coefficient 2 (3 pi^2)^(1/3) is about 5.0388, so rho = [1.0] and
\* nablarho = [[3.0, 4.0, 0.0]] give the norm 5.0 and a result of about 0.9923
C6_AsStated ==
    C6_Case =>
        /\ Centi(coeff) = 503
        /\ gradnorm(dimer_grad) = <<FromInt(5)>>
        /\ dimer_rdgrad.tag = "ok"
        /\ MilliBetween(dimer_rdgrad.val[1], coeff, Centi(coeff), 992, 993)

\* C6, amended: the coefficient is about 6.187 (6.18 <= coeff < 6.19), so
\* the same input gives the norm 5.0 and a result of about 0.808 (between
\* 0.807 and 0.810)
C6_Amended ==
    C6_Case =>
        /\ Centi(coeff) = 618
        /\ gradnorm(dimer_grad) = <<FromInt(5)>>
        /\ dimer_rdgrad.tag = "ok"
        /\ Len(dimer_rdgrad.val) = 1
        /\ MilliBetween(dimer_rdgrad.val[1], coeff, Centi(coeff), 807, 810)

C6_Witness ==
    /\ C6_Case
    /\ dimer_rdgrad.tag = "ok"
    /\ Mul(dimer_rdgrad.val[1], coeff) = FromInt(5)

Scalars == {-2, -1, 0, 3}

Scaled(k, g) == [i \in 1..Len(g) |-> <<k * g[i][1], k * g[i][2], k * g[i][3]>>]

\* the outcome of the call with every entry of a returned array times k
Times(k, outcome) ==
    IF outcome.tag = "ok"
    THEN Returned([i \in 1..Len(outcome.val) |-> Mul(FromInt(k), outcome.val[i])])
    ELSE outcome

\* C7: with positive densities, the result for the gradient k * g is k times
\* the result for g, for a scalar k of either sign
C7_ScalesByK ==
    (Called /\ AllPositive(dimer_rho)) =>
        \A k \in Scalars :
            reduced_density_gradient(dimer_rho, Scaled(k, dimer_grad))
                = Times(k, dimer_rdgrad)

\* C7, amended: the result for the gradient k * g is |k| times the result for
\* g (k times it only for k >= 0)
C7_ScalesByAbsK ==
    (Called /\ AllPositive(dimer_rho)) =>
        \A k \in Scalars :
            reduced_density_gradient(dimer_rho, Scaled(k, dimer_grad))
                = Times(Abs(k), dimer_rdgrad)

C7_Witness ==
    /\ Called
    /\ dimer_rho = <<8, 1>>
    /\ dimer_grad = <<<<1, -2, 2>>, <<-1, -1, 0>>>>
    /\ dimer_rdgrad.tag = "ok"
    /\ reduced_density_gradient(dimer_rho, Scaled(-2, dimer_grad))
          = Times(2, dimer_rdgrad)
    /\ Times(2, dimer_rdgrad) # Times(-2, dimer_rdgrad)

\* x with the entries at a and b exchanged
Swap(x, a, b) ==
    [i \in 1..Len(x) |-> IF i = a THEN x[b] ELSE IF i = b THEN x[a] ELSE x[i]]

\* x with the entry at j replaced by e
Replace(x, j, e) == [i \in 1..Len(x) |-> IF i = j THEN e ELSE x[i]]

\* C9: entry i of the result depends on rho_i and nablarho_i alone: another
\* density or gradient at an index j # i leaves it as it is, and exchanging
\* two points in both inputs exchanges them in the output
C9_Pointwise ==
    (Called /\ SameLength) =>
        /\ dimer_rdgrad.tag = "ok"
        /\ \A j \in 1..N : \A r \in RhoValues : \A g \in GradVecs :
              LET other == reduced_density_gradient(Replace(dimer_rho, j, r),
                                                    Replace(dimer_grad, j, g))
              IN  /\ other.tag = "ok"
                  /\ \A i \in (1..N) \ {j} : other.val[i] = dimer_rdgrad.val[i]
        /\ \A a, b \in 1..N :
              reduced_density_gradient(Swap(dimer_rho, a, b), Swap(dimer_grad, a, b))
                  = Returned(Swap(dimer_rdgrad.val, a, b))

C9_Witness ==
    /\ Called
    /\ dimer_rho = <<1, 8>>
    /\ dimer_grad = <<<<3, 4, 0>>, <<-1, -1, 0>>>>
    /\ dimer_rdgrad.tag = "ok"
    /\ reduced_density_gradient(<<8, 1>>, Swap(dimer_grad, 1, 2))
          = Returned(Swap(dimer_rdgrad.val, 1, 2))
    /\ dimer_rdgrad.val[1] # dimer_rdgrad.val[2]
    /\ reduced_density_gradient(<<1, 0>>, dimer_grad).val[1] = dimer_rdgrad.val[1]

\* the place of a statement in the order load structure, build grid, evaluate
\* density and gradient, compute the reduced gradient, plot
Phase(stmt) ==
    CASE stmt = "load_one" -> 1
      [] stmt = "from_molecule" -> 2
      [] stmt \in {"make_promolecule", "density", "gradient"} -> 3
      [] stmt = "reduced_density_gradient" -> 4
      [] stmt \in {"np_load", "plot"} -> 5

Ran(stmt) == \E i \in 1..Len(steps) : steps[i] = stmt

InOrder ==
    /\ \A i, j \in 1..Len(steps) :
          i < j => /\ Phase(steps[i]) <= Phase(steps[j])
                   /\ steps[i] # steps[j]
    /\ \A i \in 1..Len(steps) :
          \A p \in 1..(Phase(steps[i]) - 1) :
              \E j \in 1..(i - 1) : Phase(steps[j]) = p
    /\ Ran("reduced_density_gradient") =>
          /\ Ran("density") /\ Ran("gradient")
          /\ Len(dimer_rho) = npoints
          /\ Len(dimer_grad) = npoints
          /\ dimer_rdgrad.tag = "ok"
    /\ Ran("plot") => Ran("reduced_density_gradient")
    /\ pc = "done" => Ran("plot")

\* C10: in every run the steps occur in the order load structure, build grid,
\* evaluate density and gradient on the grid points, compute the reduced
\* gradient, plot; the reduced gradient is computed only after density and
\* gradient were evaluated on the same points, the plot only after the reduced
\* gradient, and once a step has failed no later step runs
C10_Order ==
    /\ []InOrder
    /\ [][pc = "failed" => (pc' = "failed" /\ steps' = steps)]_vars
    /\ [][steps' # steps => (pc # "failed" /\ steps' = Append(steps, pc))]_vars

C10_Witness ==
    /\ pc = "done"
    /\ Len(steps) = 8
    /\ npoints = 2
    /\ dimer_rho = <<1, 8>>
    /\ dimer_grad = <<<<3, 4, 0>>, <<-1, -1, 0>>>>
    /\ Len(dimer_rdgrad.val) = 2

C10_WitnessFailed ==
    /\ pc = "failed"
    /\ steps = <<"load_one", "from_molecule", "make_promolecule", "density">>

=============================================================================
